---- MODULE Spec2Model ----
(***************************************************************************)
(* Model of load_data (src/main.py): the cached loader that scans the      *)
(* "data" directory, classifies entries by their NFC-normalized name,      *)
(* reads environment CSV files and growth workbooks, tags the rows with    *)
(* school / target_ec and merges them into two tables.                     *)
(*                                                                         *)
(* Text is modelled as sequences of characters.  A character is a record   *)
(* [k, l, v, t]: k = "A" for a non-Hangul character l; "L", "V", "T" for a *)
(* conjoining jamo (leading consonant l, vowel v, trailing consonant t);   *)
(* "S" for a precomposed Hangul syllable with jamo l, v and t (t = "" for  *)
(* an LV syllable).  School names and keywords are romanized.              *)
(*                                                                         *)
(* A data-frame row keeps the parsed time cell and the two tag columns;    *)
(* the other cells are not touched by load_data and are left out.  src and *)
(* row record where the row came from (entry index, sheet index, row       *)
(* number) and are not part of what the caller observes.                   *)
(***************************************************************************)
EXTENDS Integers, Sequences, FiniteSets, TLC

MaxFiles == 3
MaxRows == 2
MaxCalls == 2

Range(s) == {s[i] : i \in 1..Len(s)}

---------------------------------------------------------------------------
(* Characters and Unicode normalization *)

Ch(k, l, v, t) == [k |-> k, l |-> l, v |-> v, t |-> t]
A(c) == Ch("A", c, "", "")
Syl(l, v, t) == Ch("S", l, v, t)
Asc(s) == [i \in 1..Len(s) |-> A(s[i])]

\* canonical decomposition of one character: a syllable becomes its jamo
DecomposeChar(c) ==
    IF c.k = "S"
    THEN <<Ch("L", c.l, "", ""), Ch("V", "", c.v, "")>>
         \o (IF c.t = "" THEN <<>> ELSE <<Ch("T", "", "", c.t)>>)
    ELSE <<c>>

RECURSIVE Decompose(_)
Decompose(s) ==
    IF s = <<>> THEN <<>> ELSE DecomposeChar(Head(s)) \o Decompose(Tail(s))

\* canonical composition: L+V -> LV, LV+T -> LVT, left to right
ComposeStep(out, c) ==
    IF out = <<>> THEN <<c>>
    ELSE LET last == out[Len(out)]
             front == SubSeq(out, 1, Len(out) - 1)
         IN IF last.k = "L" /\ c.k = "V"
            THEN Append(front, Syl(last.l, c.v, ""))
            ELSE IF last.k = "S" /\ last.t = "" /\ c.k = "T"
            THEN Append(front, Syl(last.l, last.v, c.t))
            ELSE Append(out, c)

RECURSIVE Compose(_, _)
Compose(out, s) ==
    IF s = <<>> THEN out ELSE Compose(ComposeStep(out, Head(s)), Tail(s))

normalize_str_raw(s) == s

normalize_str(s) == IF s = <<>> THEN <<>> ELSE Compose(<<>>, Decompose(s))

Contains(s, sub) ==
    \E i \in 0..(Len(s) - Len(sub)) : SubSeq(s, i + 1, i + Len(sub)) = sub

EndsWith(s, suf) ==
    /\ Len(s) >= Len(suf)
    /\ SubSeq(s, Len(s) - Len(suf) + 1, Len(s)) = suf

---------------------------------------------------------------------------
(* Keywords and the school table *)

kwSongdo == <<Syl("s", "o", "ng"), Syl("d", "o", "")>>
kwHaneul == <<Syl("h", "a", ""), Syl("n", "eu", "l")>>
kwAra == <<Syl("x", "a", ""), Syl("r", "a", "")>>
kwDongsan == <<Syl("d", "o", "ng"), Syl("s", "a", "n")>>
kwEnv == <<Syl("h", "wa", "n"), Syl("g", "yeo", "ng")>>
kwGrowth == <<Syl("s", "ae", "ng"), Syl("x", "yu", "g")>>
extCsv == Asc(<<".", "c", "s", "v">>)
extXlsx == Asc(<<".", "x", "l", "s", "x">>)

SchoolOrder == <<"Songdo", "Haneul", "Ara", "Dongsan">>
Schools == Range(SchoolOrder)

SCHOOL_META ==
    [Songdo  |-> [ec_target |-> 1, color |-> "#1f77b4", file_keyword |-> kwSongdo],
     Haneul  |-> [ec_target |-> 2, color |-> "#2ca02c", file_keyword |-> kwHaneul],
     Ara     |-> [ec_target |-> 4, color |-> "#ff7f0e", file_keyword |-> kwAra],
     Dongsan |-> [ec_target |-> 8, color |-> "#d62728", file_keyword |-> kwDongsan]]

ErrDirectoryNotFound == "DirectoryNotFound"
ErrNoEnvironmentData == "NoEnvironmentData"
ErrNoGrowthData == "NoGrowthData"
ErrExcelLoad == "ExcelLoadError"

---------------------------------------------------------------------------
(* Column names: sequences of one-character strings *)

colTime == <<"t", "i", "m", "e">>
colTemperature == <<"t", "e", "m", "p", "e", "r", "a", "t", "u", "r", "e">>
colHumidity == <<"h", "u", "m", "i", "d", "i", "t", "y">>
colPh == <<"p", "h">>
colEc == <<"e", "c">>
colSchool == <<"s", "c", "h", "o", "o", "l">>
colTargetEc == <<"t", "a", "r", "g", "e", "t", "_", "e", "c">>

required_cols == {colTime, colTemperature, colHumidity, colPh, colEc}

UpperToLower ==
    [A |-> "a", B |-> "b", C |-> "c", D |-> "d", E |-> "e", F |-> "f",
     G |-> "g", H |-> "h", I |-> "i", J |-> "j", K |-> "k", L |-> "l",
     M |-> "m", N |-> "n", O |-> "o", P |-> "p", Q |-> "q", R |-> "r",
     S |-> "s", T |-> "t", U |-> "u", V |-> "v", W |-> "w", X |-> "x",
     Y |-> "y", Z |-> "z"]

Lower(s) ==
    [i \in 1..Len(s) |->
        IF s[i] \in DOMAIN UpperToLower THEN UpperToLower[s[i]] ELSE s[i]]

RECURSIVE Strip(_)
Strip(s) ==
    IF s = <<>> THEN s
    ELSE IF Head(s) = " " THEN Strip(Tail(s))
    ELSE IF s[Len(s)] = " " THEN Strip(SubSeq(s, 1, Len(s) - 1))
    ELSE s

NormalizeColumns(cols) == [i \in 1..Len(cols) |-> Lower(Strip(cols[i]))]

\* pd.to_datetime(..., errors='coerce') on one cell
NaT == [valid |-> FALSE, ts |-> ""]
ToDatetime(cell) ==
    IF cell = "n/a" THEN NaT ELSE [valid |-> TRUE, ts |-> cell]

---------------------------------------------------------------------------
(* Tables and results *)

None == [present |-> FALSE, rows |-> <<>>]
Table(rows) == [present |-> TRUE, rows |-> rows]
NoResult == [env |-> None, growth |-> None, err |-> "unset"]
NoCache == [present |-> FALSE, value |-> NoResult]

RECURSIVE Concat(_)
Concat(dfs) == IF dfs = <<>> THEN <<>> ELSE Head(dfs) \o Concat(Tail(dfs))

---------------------------------------------------------------------------
(* A. environment CSV files *)

\* pd.read_csv(file_path, encoding=enc): e.read names the encoding in which
\* the file decodes and parses, "error" when it does in neither
pd_read_csv(e, enc) ==
    [ok |-> e.read = enc, columns |-> e.header, cells |-> e.times]

ReadWithFallback(e) ==
    LET first == pd_read_csv(e, "utf8")
    IN IF first.ok THEN first ELSE pd_read_csv(e, "cp949")

TagEnvFirstSchool(cells, school, src) ==
    [i \in 1..Len(cells) |->
        [time |-> cells[i], school |-> school,
         target_ec |-> SCHOOL_META[SchoolOrder[1]].ec_target,
         src |-> src, row |-> i]]

\* df['school'] = school ; df['target_ec'] = meta['ec_target']
TagEnv(cells, school, src) ==
    [i \in 1..Len(cells) |->
        [time |-> cells[i], school |-> school,
         target_ec |-> SCHOOL_META[school].ec_target,
         src |-> src, row |-> i]]

ParseTimes(rows) ==
    [i \in 1..Len(rows) |-> [rows[i] EXCEPT !.time = ToDatetime(rows[i].time)]]

\* body of "for school, meta in SCHOOL_META.items()" for one school;
\* acc = [env_dfs, found_env_files]
EnvTry(acc, e, fname, school, src) ==
    IF ~Contains(fname, SCHOOL_META[school].file_keyword) THEN acc
    ELSE LET df == ReadWithFallback(e)
         IN IF ~df.ok THEN acc
            ELSE LET tagged == TagEnv(df.cells, school, src)
                     columns == NormalizeColumns(
                                    df.columns \o <<colSchool, colTargetEc>>)
                 IN IF required_cols \subseteq Range(columns)
                    THEN [env_dfs |-> Append(acc.env_dfs, ParseTimes(tagged)),
                          found_env_files |-> acc.found_env_files + 1]
                    ELSE acc

RECURSIVE EnvLoop(_, _, _, _, _)
EnvLoop(acc, e, fname, src, k) ==
    IF k > Len(SchoolOrder) THEN acc
    ELSE EnvLoop(EnvTry(acc, e, fname, SchoolOrder[k], src), e, fname, src, k + 1)

---------------------------------------------------------------------------
(* B. growth workbooks *)

\* the matching loop with break: the first school in SCHOOL_META order whose
\* keyword occurs in the sheet name, "" for matched_school = None
RECURSIVE MatchSchool(_, _)
MatchSchool(norm_sheet, k) ==
    IF k > Len(SchoolOrder) THEN ""
    ELSE IF Contains(norm_sheet, SCHOOL_META[SchoolOrder[k]].file_keyword)
    THEN SchoolOrder[k]
    ELSE MatchSchool(norm_sheet, k + 1)

TagGrowth(nrows, school, src, sheet) ==
    [i \in 1..nrows |->
        [school |-> school, target_ec |-> SCHOOL_META[school].ec_target,
         src |-> src, sheet |-> sheet, row |-> i]]

\* the loop over excel_file.sheet_names; acc = [growth_dfs, raised].
\* sh.read = "error": pd.read_excel of the sheet, or the strip of a column
\* name that is not a string, raises
RECURSIVE SheetLoop(_, _, _, _)
SheetLoop(acc, e, src, j) ==
    IF j > Len(e.sheets) \/ acc.raised THEN acc
    ELSE LET sh == e.sheets[j]
             matched_school == MatchSchool(normalize_str(sh.name), 1)
         IN IF matched_school = "" THEN SheetLoop(acc, e, src, j + 1)
            ELSE IF sh.read = "error"
            THEN [acc EXCEPT !.raised = TRUE]
            ELSE SheetLoop(
                   [acc EXCEPT !.growth_dfs =
                       Append(@, TagGrowth(sh.nrows, matched_school, src, j))],
                   e, src, j + 1)

---------------------------------------------------------------------------
(* The body of "for file_path in data_dir.iterdir()" for one entry;        *)
(* st = [env_dfs, growth_dfs, found_env_files, found_growth_file, raised]  *)

IsEnvName(fname) == EndsWith(fname, extCsv) /\ Contains(fname, kwEnv)
IsGrowthName(fname) == EndsWith(fname, extXlsx) /\ Contains(fname, kwGrowth)

ProcessEntry(st, e, src) ==
    LET fname == normalize_str(e.name)
    IN IF IsEnvName(fname)
       THEN LET r == EnvLoop([env_dfs |-> st.env_dfs,
                              found_env_files |-> st.found_env_files],
                             e, fname, src, 1)
            IN [st EXCEPT !.env_dfs = r.env_dfs,
                          !.found_env_files = r.found_env_files]
       ELSE IF IsGrowthName(fname)
       THEN IF e.open = "error"
            THEN [st EXCEPT !.found_growth_file = TRUE, !.raised = TRUE]
            ELSE LET r == SheetLoop([growth_dfs |-> st.growth_dfs,
                                     raised |-> FALSE], e, src, 1)
                 IN [st EXCEPT !.found_growth_file = TRUE,
                               !.growth_dfs = r.growth_dfs,
                               !.raised = r.raised]
       ELSE st

ExcelError == [env |-> None, growth |-> None, err |-> ErrExcelLoad]

MergeGrowthFirst(edfs, gdfs) ==
    IF gdfs = <<>>
    THEN [env |-> None, growth |-> None, err |-> ErrNoGrowthData]
    ELSE IF edfs = <<>>
    THEN [env |-> None, growth |-> None, err |-> ErrNoEnvironmentData]
    ELSE [env |-> Table(Concat(edfs)), growth |-> Table(Concat(gdfs)),
          err |-> ""]

\* 2-2: the two emptiness checks and pd.concat
Merge(edfs, gdfs) ==
    IF edfs = <<>>
    THEN [env |-> None, growth |-> None, err |-> ErrNoEnvironmentData]
    ELSE IF gdfs = <<>>
    THEN [env |-> None, growth |-> None, err |-> ErrNoGrowthData]
    ELSE [env |-> Table(Concat(edfs)), growth |-> Table(Concat(gdfs)),
          err |-> ""]

EmptyAcc ==
    [env_dfs |-> <<>>, growth_dfs |-> <<>>, found_env_files |-> 0,
     found_growth_file |-> FALSE, raised |-> FALSE]

\* load_data as a function of the directory (one uncached run)
RECURSIVE LoadFrom(_, _, _)
LoadFrom(st, d, i) ==
    IF st.raised THEN ExcelError
    ELSE IF i > Len(d) THEN Merge(st.env_dfs, st.growth_dfs)
    ELSE LoadFrom(ProcessEntry(st, d[i], i), d, i + 1)

load_data(exists, d) ==
    IF ~exists
    THEN [env |-> None, growth |-> None, err |-> ErrDirectoryNotFound]
    ELSE LoadFrom(EmptyAcc, d, 1)

---------------------------------------------------------------------------
(* Directory contents the runs are drawn from *)

Cells == {"2024-05-01 00:00", "n/a"}

FullHeader == <<colTime, colTemperature, colHumidity, colPh, colEc>>
MixedHeader ==
    << <<" ", "T", "i", "m", "e", " ">>,
       <<"T", "e", "m", "p", "e", "r", "a", "t", "u", "r", "e">>,
       <<"H", "U", "M", "I", "D", "I", "T", "Y", " ">>,
       <<"p", "H">>,
       <<" ", "E", "C">> >>
HeaderWithout(c) == SelectSeq(FullHeader, LAMBDA x : x # c)
ShortHeaders == {HeaderWithout(c) : c \in required_cols}

Entry(name, read, header, times, open, sheets) ==
    [name |-> name, read |-> read, header |-> header, times |-> times,
     open |-> open, sheets |-> sheets]

CsvEntry(name, read, header, times) ==
    Entry(name, read, header, times, "error", <<>>)
XlsxEntry(name, open, sheets) ==
    Entry(name, "error", <<>>, <<>>, open, sheets)

OneRow == <<"2024-05-01 00:00">>
Sep == Asc(<<"_">>)

nmSongdoEnv == kwSongdo \o Sep \o kwEnv \o extCsv
nmHaneulEnv == kwHaneul \o Sep \o kwEnv \o extCsv
nmMultiEnv == kwHaneul \o kwSongdo \o Sep \o kwEnv \o extCsv
nmMiscEnv == Asc(<<"x">>) \o Sep \o kwEnv \o extCsv
nmGrowth == kwGrowth \o extXlsx
nmOther == Asc(<<"n", "o", "t", "e", ".", "t", "x", "t">>)

shSongdo == kwSongdo
shHaneul == kwHaneul
shMulti == kwHaneul \o kwSongdo
shMisc == Asc(<<"S", "h", "e", "e", "t", "1">>)

Sheet(name, read, nrows) == [name |-> name, read |-> read, nrows |-> nrows]

\* sequences of at most n elements of pool with pairwise distinct names
\* (entries of one directory, sheets of one workbook)
RECURSIVE DistinctSeqs(_, _)
DistinctSeqs(pool, n) ==
    IF n = 0 THEN {<<>>}
    ELSE LET shorter == DistinctSeqs(pool, n - 1)
         IN shorter \cup
            {Append(p[1], p[2]) :
                p \in {q \in shorter \X pool :
                          /\ Len(q[1]) = n - 1
                          /\ \A i \in 1..Len(q[1]) : q[1][i].name # q[2].name}}

shS == Sheet(shSongdo, "ok", MaxRows)
shM == Sheet(shMulti, "ok", 1)
shX == Sheet(shMisc, "ok", 1)
shXerr == Sheet(shMisc, "error", 1)
shHerr == Sheet(shHaneul, "error", 1)

\* workbooks: one matched sheet, one unmatched sheet, one doubly matched
\* sheet, a sheet whose read raises after or before an accepted one, an
\* unmatched sheet that could not be read (it never is) before a matched one
Workbooks ==
    {<<shS>>, <<shX>>, <<shM>>, <<shS, shHerr>>, <<shHerr, shS>>,
     <<shXerr, shS>>}

TimeSeqs == UNION {[1..n -> Cells] : n \in 1..MaxRows}

EntryPool ==
    {CsvEntry(nmSongdoEnv, "utf8", FullHeader, t) : t \in TimeSeqs}
    \cup {CsvEntry(nmSongdoEnv, "utf8", h, OneRow) :
             h \in ShortHeaders \cup {MixedHeader}}
    \cup {CsvEntry(nmSongdoEnv, "cp949", FullHeader, OneRow),
          CsvEntry(nmSongdoEnv, "error", FullHeader, OneRow),
          CsvEntry(nmHaneulEnv, "utf8", FullHeader, OneRow),
          CsvEntry(nmMultiEnv, "utf8", FullHeader, OneRow),
          CsvEntry(nmMiscEnv, "utf8", FullHeader, OneRow),
          Entry(nmOther, "utf8", FullHeader, OneRow, "error", <<>>),
          XlsxEntry(nmGrowth, "error", <<>>)}
    \cup {XlsxEntry(nmGrowth, "ok", w) : w \in Workbooks}

Dirs == DistinctSeqs(EntryPool, MaxFiles)

\* the canonically equivalent spellings of a name: precomposed, fully
\* decomposed, and LV syllable followed by a trailing jamo
Mixed(name) ==
    LET d == Decompose(name)
    IN <<Syl(d[1].l, d[2].v, "")>> \o SubSeq(d, 3, Len(d))
Spellings(name) == {name, Decompose(name), Mixed(name)}

NormWorkbooks ==
    {<<Sheet(shSongdo, "ok", 1)>>,
     <<Sheet(Decompose(shSongdo), "ok", 1)>>,
     <<Sheet(Mixed(shSongdo), "ok", 1), Sheet(shSongdo, "ok", 1)>>,
     <<Sheet(Decompose(shSongdo), "ok", 1), Sheet(shMisc, "ok", 1),
       Sheet(shSongdo, "ok", 1)>>}

NormEntryPool ==
    {CsvEntry(n, "utf8", FullHeader, OneRow) : n \in Spellings(nmSongdoEnv)}
    \cup {XlsxEntry(Decompose(nmGrowth), "error", <<>>)}
    \cup {XlsxEntry(n, "ok", w) :
             n \in {nmGrowth, Decompose(nmGrowth)}, w \in NormWorkbooks}

NormDirs == DistinctSeqs(NormEntryPool, MaxFiles)

---------------------------------------------------------------------------
(* State *)

VARIABLES
    dirExists,          \* Path("data").exists()
    dir,                \* the entries of data/, in iterdir order
    pc,                 \* "idle", "check", "loop", "ret"
    idx,                \* position of the for loop over iterdir (0: not begun)
    env_dfs, growth_dfs, found_env_files, found_growth_file,
    result,             \* the value load_data is about to return
    cache,              \* the st.cache_data entry of load_data
    calls,              \* number of load_data() calls made by main
    returned            \* (env_df, growth_df, error_msg) last received by main

vars == <<dirExists, dir, pc, idx, env_dfs, growth_dfs, found_env_files,
          found_growth_file, result, cache, calls, returned>>

locals == <<idx, env_dfs, growth_dfs, found_env_files, found_growth_file>>

InitWith(dirs) ==
    /\ dirExists \in BOOLEAN
    /\ dir \in (IF dirExists THEN dirs ELSE {<<>>})
    /\ pc = "idle"
    /\ idx = 0
    /\ env_dfs = <<>>
    /\ growth_dfs = <<>>
    /\ found_env_files = 0
    /\ found_growth_file = FALSE
    /\ result = NoResult
    /\ cache = NoCache
    /\ calls = 0
    /\ returned = NoCache

Init == InitWith(Dirs)
InitNorm == InitWith(NormDirs)

CallNoCache ==
    /\ pc = "idle"
    /\ calls < MaxCalls
    /\ calls' = calls + 1
    /\ pc' = "check"
    /\ UNCHANGED <<dirExists, dir, locals, result, cache, returned>>

\* main calls load_data(): the st.cache_data wrapper returns the stored value
\* when there is one, and runs the function otherwise
Call ==
    /\ pc = "idle"
    /\ calls < MaxCalls
    /\ calls' = calls + 1
    /\ IF cache.present
       THEN /\ returned' = [present |-> TRUE, value |-> cache.value]
            /\ pc' = "idle"
       ELSE /\ pc' = "check"
            /\ UNCHANGED returned
    /\ UNCHANGED <<dirExists, dir, locals, result, cache>>

CheckDirNoGuard ==
    /\ pc = "check"
    /\ idx' = 1
    /\ pc' = "loop"
    /\ UNCHANGED <<dirExists, dir, env_dfs, growth_dfs, found_env_files,
                   found_growth_file, result, cache, calls, returned>>

\* data_dir.exists() and the initialisation of the accumulators
CheckDir ==
    /\ pc = "check"
    /\ IF ~dirExists
       THEN /\ result' = [env |-> None, growth |-> None,
                          err |-> ErrDirectoryNotFound]
            /\ pc' = "ret"
            /\ UNCHANGED locals
       ELSE /\ env_dfs' = <<>>
            /\ growth_dfs' = <<>>
            /\ found_env_files' = 0
            /\ found_growth_file' = FALSE
            /\ idx' = 1
            /\ pc' = "loop"
            /\ UNCHANGED result
    /\ UNCHANGED <<dirExists, dir, cache, calls, returned>>

\* one iteration of the loop over data_dir.iterdir()
LoopBody ==
    /\ pc = "loop"
    /\ idx <= Len(dir)
    /\ \E st \in {ProcessEntry(
                    [env_dfs |-> env_dfs, growth_dfs |-> growth_dfs,
                     found_env_files |-> found_env_files,
                     found_growth_file |-> found_growth_file,
                     raised |-> FALSE], dir[idx], idx)} :
          /\ found_env_files' = st.found_env_files
          /\ found_growth_file' = st.found_growth_file
          /\ env_dfs' = st.env_dfs
          /\ growth_dfs' = st.growth_dfs
          /\ IF st.raised
             THEN /\ result' = ExcelError
                  /\ pc' = "ret"
                  /\ UNCHANGED idx
             ELSE /\ idx' = idx + 1
                  /\ UNCHANGED <<pc, result>>
    /\ UNCHANGED <<dirExists, dir, cache, calls, returned>>

\* 2-2 after the loop
Finish ==
    /\ pc = "loop"
    /\ idx > Len(dir)
    /\ result' = Merge(env_dfs, growth_dfs)
    /\ pc' = "ret"
    /\ UNCHANGED <<dirExists, dir, locals, cache, calls, returned>>

\* the wrapper stores the value and hands it to main; the frame is gone
Return ==
    /\ pc = "ret"
    /\ cache' = [present |-> TRUE, value |-> result]
    /\ returned' = [present |-> TRUE, value |-> result]
    /\ result' = NoResult
    /\ idx' = 0
    /\ env_dfs' = <<>>
    /\ growth_dfs' = <<>>
    /\ found_env_files' = 0
    /\ found_growth_file' = FALSE
    /\ pc' = "idle"
    /\ UNCHANGED <<dirExists, dir, calls>>

\* between two calls the data directory is removed
RemoveDir ==
    /\ pc = "idle"
    /\ dirExists
    /\ dirExists' = FALSE
    /\ dir' = <<>>
    /\ UNCHANGED <<pc, locals, result, cache, calls, returned>>

Next == Call \/ CheckDir \/ LoopBody \/ Finish \/ Return \/ RemoveDir

Spec == Init /\ [][Next]_vars
SpecNorm == InitNorm /\ [][Next]_vars

---------------------------------------------------------------------------
(* Vocabulary of the properties *)

Count(rows, P(_)) == Cardinality({p \in 1..Len(rows) : P(rows[p])})
Without(d, i) == SubSeq(d, 1, i - 1) \o SubSeq(d, i + 1, Len(d))

MatchingSchools(name) ==
    {s \in Schools : Contains(name, SCHOOL_META[s].file_keyword)}

EnvCandidate(e) == IsEnvName(normalize_str(e.name))
GrowthCandidate(e) == IsGrowthName(normalize_str(e.name))
Decodes(e) == e.read \in {"utf8", "cp949"}
HasRequired(e) == required_cols \subseteq Range(NormalizeColumns(e.header))
ValidEnv(e) ==
    /\ EnvCandidate(e)
    /\ MatchingSchools(normalize_str(e.name)) # {}
    /\ Decodes(e)
    /\ HasRequired(e)
SkippedEnv(e) == EnvCandidate(e) /\ ~ValidEnv(e)

\* what the caller can see of a result: the rows without their provenance
Observable(r) ==
    [env |-> [present |-> r.env.present,
              rows |-> [p \in 1..Len(r.env.rows) |->
                          [time |-> r.env.rows[p].time,
                           school |-> r.env.rows[p].school,
                           target_ec |-> r.env.rows[p].target_ec]]],
     growth |-> [present |-> r.growth.present,
                 rows |-> [p \in 1..Len(r.growth.rows) |->
                             [school |-> r.growth.rows[p].school,
                              target_ec |-> r.growth.rows[p].target_ec]]],
     err |-> r.err]

Returning == pc = "ret"
Succeeded == pc = "ret" /\ result.err = ""
LoopDone == pc = "loop" /\ idx > Len(dir)

---------------------------------------------------------------------------
(* C1: a failure on one candidate file never aborts the load: when        *)
(* load_data returns for an existing directory, every entry has been      *)
(* processed and the outcome is a dataset, NoEnvironmentData or           *)
(* NoGrowthData.                                                          *)
C1_NeverAborts ==
    (Returning /\ dirExists) =>
        /\ idx > Len(dir)
        /\ result.err \in {"", ErrNoEnvironmentData, ErrNoGrowthData}

(* C2 as stated: with no growth-keyword workbook in the directory the     *)
(* load fails with NoGrowthData, whatever the number of valid environment *)
(* files, none included.                                                  *)
C2_AlwaysNoGrowthData ==
    (Returning /\ dirExists /\ \A i \in 1..Len(dir) : ~GrowthCandidate(dir[i]))
        => result.err = ErrNoGrowthData

(* C2 amended: with no growth-keyword workbook in the directory the load  *)
(* fails with NoGrowthData when at least one environment file is valid,   *)
(* and with NoEnvironmentData when none is; no table is returned.         *)
C2_NoGrowthDataAfterEnv ==
    (Returning /\ dirExists /\ \A i \in 1..Len(dir) : ~GrowthCandidate(dir[i]))
        => /\ result.env = None
           /\ result.growth = None
           /\ result.err = IF \E i \in 1..Len(dir) : ValidEnv(dir[i])
                           THEN ErrNoGrowthData
                           ELSE ErrNoEnvironmentData

C2_Witness ==
    /\ Returning
    /\ dirExists
    /\ \A i \in 1..Len(dir) : ~GrowthCandidate(dir[i])
    /\ Cardinality({i \in 1..Len(dir) : ValidEnv(dir[i])}) >= 2
    /\ result.err = ErrNoGrowthData

(* C3: a skipped environment file is observable: the result of a          *)
(* successful load differs from the result for the same directory without *)
(* that skipped file.                                                     *)
C3_SkipsObservable ==
    Succeeded =>
        \A i \in 1..Len(dir) :
            SkippedEnv(dir[i]) =>
                Observable(result) # Observable(load_data(TRUE, Without(dir, i)))

(* C4: an environment CSV lacking a required column contributes no row,   *)
(* and the load returns a dataset whenever another environment file is    *)
(* valid and a growth section has been accepted.                          *)
C4_ShortHeaderExcluded ==
    (Returning /\ dirExists) =>
        \A i \in 1..Len(dir) :
            (EnvCandidate(dir[i]) /\ Decodes(dir[i]) /\ ~HasRequired(dir[i])) =>
                /\ \A k \in 1..Len(env_dfs) :
                       Count(env_dfs[k], LAMBDA r : r.src = i) = 0
                /\ Count(result.env.rows, LAMBDA r : r.src = i) = 0
                /\ ((\E j \in 1..Len(dir) : j # i /\ ValidEnv(dir[j]))
                        /\ growth_dfs # <<>>)
                     => result.err = ""

(* C5: when the data directory does not exist load_data returns           *)
(* DirectoryNotFound with both tables absent, and the loop over the       *)
(* entries has not begun and nothing has been accumulated.                *)
C5_DirectoryNotFound ==
    (Returning /\ ~dirExists) =>
        /\ result = [env |-> None, growth |-> None,
                     err |-> ErrDirectoryNotFound]
        /\ idx = 0
        /\ env_dfs = <<>> /\ growth_dfs = <<>>
        /\ found_env_files = 0 /\ ~found_growth_file

C5_Witness ==
    /\ Returning
    /\ ~dirExists
    /\ calls = 1
    /\ result.err = ErrDirectoryNotFound

(* C6: every accepted environment file contributes exactly as many rows   *)
(* to the environment table as it has parsed rows, the unparseable time   *)
(* values among them as invalid-timestamp markers.                        *)
C6_RowsPreserved ==
    Succeeded =>
        \A i \in 1..Len(dir) :
            ValidEnv(dir[i]) =>
                /\ Count(result.env.rows, LAMBDA r : r.src = i)
                       = Len(dir[i].times)
                /\ Count(result.env.rows, LAMBDA r : r.src = i /\ r.time = NaT)
                       = Count(dir[i].times, LAMBDA c : c = "n/a")

(* C7: in a returned dataset every environment row and every growth row   *)
(* carries a school whose keyword occurs in the normalized name of the    *)
(* file or sheet it came from, and that school's ec_target as target_ec.  *)
C7_RowsTagged ==
    Succeeded =>
        /\ \A p \in 1..Len(result.env.rows) :
              LET r == result.env.rows[p]
              IN /\ r.school \in MatchingSchools(normalize_str(dir[r.src].name))
                 /\ r.target_ec = SCHOOL_META[r.school].ec_target
        /\ \A p \in 1..Len(result.growth.rows) :
              LET r == result.growth.rows[p]
              IN /\ r.school \in MatchingSchools(
                        normalize_str(dir[r.src].sheets[r.sheet].name))
                 /\ r.target_ec = SCHOOL_META[r.school].ec_target

C7_Witness ==
    /\ Succeeded
    /\ \E p \in 1..Len(result.env.rows) :
          /\ result.env.rows[p].school = "Haneul"
          /\ result.env.rows[p].target_ec = 2
    /\ \E p \in 1..Len(result.env.rows) : result.env.rows[p].school = "Songdo"
    /\ \E p \in 1..Len(result.growth.rows) :
          /\ result.growth.rows[p].school = "Songdo"
          /\ dir[result.growth.rows[p].src].sheets[result.growth.rows[p].sheet]
                 = shM

(* C8: once a call of load_data has returned, every later call returns    *)
(* the same result, and the stored value is never dropped or replaced.    *)
C8_ComputedOnce ==
    [][/\ returned.present => returned' = returned
       /\ cache.present => cache' = cache]_vars

C8_Witness ==
    /\ pc = "idle"
    /\ calls = 2
    /\ ~dirExists
    /\ returned.present
    /\ returned.value.err = ""
    /\ returned.value = cache.value

---------------------------------------------------------------------------
(* Names that differ only in canonical composition form                   *)

CanonicallyEquivalent(a, b) == Decompose(a) = Decompose(b)

SameContent(e, f) == [e EXCEPT !.name = <<>>] = [f EXCEPT !.name = <<>>]

EnvSchoolsOf(i) ==
    {r.school : r \in {x \in Range(Concat(env_dfs)) : x.src = i}}
GrowthSchoolsOf(i) ==
    {<<r.sheet, r.school>> : r \in {x \in Range(Concat(growth_dfs)) : x.src = i}}
SheetSchoolsOf(i, j) ==
    {r.school :
        r \in {x \in Range(Concat(growth_dfs)) : x.src = i /\ x.sheet = j}}

(* C9: when the loop over the entries has ended, two entries with         *)
(* canonically equivalent names and equal content have contributed rows   *)
(* of the same schools, and so have two such sheets of one workbook.      *)
C9_NormalizationEquivalence ==
    LoopDone =>
        /\ \A i, j \in 1..Len(dir) :
              (CanonicallyEquivalent(dir[i].name, dir[j].name)
                  /\ SameContent(dir[i], dir[j])) =>
                  /\ EnvSchoolsOf(i) = EnvSchoolsOf(j)
                  /\ GrowthSchoolsOf(i) = GrowthSchoolsOf(j)
        /\ \A i \in 1..Len(dir) :
              \A a, b \in 1..Len(dir[i].sheets) :
                  (CanonicallyEquivalent(dir[i].sheets[a].name,
                                         dir[i].sheets[b].name)
                      /\ dir[i].sheets[a].read = dir[i].sheets[b].read) =>
                      SheetSchoolsOf(i, a) = SheetSchoolsOf(i, b)

C9_Witness ==
    /\ LoopDone
    /\ \E i, j \in 1..Len(dir) :
          /\ dir[i].name # dir[j].name
          /\ dir[i].name = normalize_str(dir[i].name)
          /\ CanonicallyEquivalent(dir[i].name, dir[j].name)
          /\ EnvSchoolsOf(i) = {"Songdo"}
          /\ EnvSchoolsOf(j) = {"Songdo"}
    /\ \E i \in 1..Len(dir) :
          /\ dir[i].name # normalize_str(dir[i].name)
          /\ \E a, b \in 1..Len(dir[i].sheets) :
                /\ dir[i].sheets[a].name # dir[i].sheets[b].name
                /\ SheetSchoolsOf(i, a) = {"Songdo"}
                /\ SheetSchoolsOf(i, b) = {"Songdo"}

(* C10: first match wins: the rows of one environment file or growth      *)
(* sheet enter the unified table at most once, under at most one school.  *)
C10_FirstMatchWins ==
    Succeeded =>
        /\ \A p, q \in 1..Len(result.env.rows) :
              (result.env.rows[p].src = result.env.rows[q].src) =>
                  /\ result.env.rows[p].school = result.env.rows[q].school
                  /\ (result.env.rows[p].row = result.env.rows[q].row => p = q)
        /\ \A p, q \in 1..Len(result.growth.rows) :
              (/\ result.growth.rows[p].src = result.growth.rows[q].src
               /\ result.growth.rows[p].sheet = result.growth.rows[q].sheet) =>
                  /\ result.growth.rows[p].school = result.growth.rows[q].school
                  /\ (result.growth.rows[p].row = result.growth.rows[q].row
                         => p = q)

====
